---- MODULE Spec2Model ----
(***************************************************************************)
(* A model of lsdjtool's LittleSoundDj save-file code: the block codec     *)
(* (src/lsdj/compression.rs), the block allocation table                   *)
(* (src/lsdj/metadata.rs) and song import/export (src/lsdj/mod.rs).        *)
(*                                                                         *)
(* Byte values, token values and the two 16-byte dictionary patterns are   *)
(* the program's own.  The sizes of the buffers and tables are scaled down *)
(* (they are the bounds of the model); every index computation is written  *)
(* against the named size, as in the source.  Rust's checked indexing is   *)
(* modelled: an out-of-range index ends the call with kind "panic".        *)
(***************************************************************************)
EXTENDS Integers, Sequences, FiniteSets, TLC

(***************************************************************************)
(* Sizes (scaled).  mod.rs:11-15, metadata.rs:13,23.                       *)
(***************************************************************************)
\* mod.rs:11 BLOCK_SIZE = 0x200, scaled
BLOCK_SIZE == 6
\* mod.rs:15 SRAM_SIZE = 0x8000, scaled (still longer than one dictionary pattern)
SRAM_SIZE == 18
\* mod.rs:12 BLOCK_COUNT = 0xbe, scaled
BLOCK_COUNT == 3
\* metadata.rs:23 ALLOC_TABLE_LENGTH = 0xbf: one entry more than there are blocks
ALLOC_TABLE_LENGTH == BLOCK_COUNT + 1
\* metadata.rs:13 SONG_SLOTS = 0x20, scaled
SONG_SLOTS == 2

(***************************************************************************)
(* Byte constants of the compressed stream.  compression.rs:8-19.          *)
(***************************************************************************)
RLE_BYTE == 192
SPECIAL_BYTE == 224
DEF_INST_BYTE == 241
DEF_WAVE_BYTE == 240
EOF_BYTE == 255
DEF_INST_SIZE == 16
DEF_WAVE_SIZE == 16
DEF_INST_VALUES == <<168, 0, 0, 255, 0, 0, 3, 0, 0, 208, 0, 0, 0, 243, 0, 0>>
DEF_WAVE_VALUES == <<142, 205, 204, 187, 170, 169, 153, 136,
                     135, 118, 102, 85, 84, 67, 50, 49>>
\* compression.rs:243: the run counter is a u8 and stops at 0xff, scaled so
\* that the SRAM holds longer runs
REPEAT_MAX == 6
\* compression.rs:137: b'x', the placeholder a song file carries as block number
PLACEHOLDER == 120
\* metadata.rs:148: an unallocated block's entry
FREE == 255
\* the width of the u8 counters (blocks_written, blocks_decompressed, block_num)
U8_WRAP == 256

\* mod.rs:25-33 mod err
ERR_SONGS_FULL == "song slots full!"
ERR_BAD_FMT == "blocks are incorrectly formatted!"
ERR_NO_BLOCKS == "not enough free blocks left!"
ERR_BLOCK_TAKEN == "block is already taken!"
ERR_NO_SKIP == "block contains no skip instruction!"
ERR_WTF == "something has gone terribly wrong"

(***************************************************************************)
(* Zero-based access to Rust arrays and vectors kept as TLA+ sequences.    *)
(***************************************************************************)
Get(s, i) == s[i + 1]
Set(s, i, v) == [s EXCEPT ![i + 1] = v]
Slice(s, from, to) == [k \in 1..(to - from) |-> s[from + k]]
Min(a, b) == IF a < b THEN a ELSE b

\* Result values: Ok(val), Err(err), or a panic (checked indexing, overflow).
Ok(n) == [kind |-> "Ok", val |-> n, err |-> ""]
Err(e) == [kind |-> "Err", val |-> 0, err |-> e]
Panicked(what) == [kind |-> "panic", val |-> 0, err |-> what]
NoResult == [kind |-> "none", val |-> 0, err |-> ""]

\* LsdjBlock::empty() and LsdjSram::empty()
EmptyBlock == [i \in 1..BLOCK_SIZE |-> 0]
EmptySramData == [i \in 1..SRAM_SIZE |-> 0]
EmptySram == [position |-> 0, data |-> EmptySramData]

(***************************************************************************)
(* is_def_inst / is_def_wave, compression.rs:23-51: a slice of exactly 16  *)
(* bytes equal to the pattern.                                             *)
(***************************************************************************)
is_def_inst(data) ==
    /\ Len(data) = DEF_INST_SIZE
    /\ \A i \in 1..DEF_INST_SIZE : data[i] = DEF_INST_VALUES[i]

is_def_wave(data) ==
    /\ Len(data) = DEF_WAVE_SIZE
    /\ \A i \in 1..DEF_WAVE_SIZE : data[i] = DEF_WAVE_VALUES[i]

(***************************************************************************)
(* LsdjBlock::decompress, compression.rs:67-128.                           *)
(* The result carries the destination SRAM as the call leaves it.  A panic *)
(* leaves dest.position untouched (it is only advanced on return).         *)
(***************************************************************************)
Fill(data, start, count, v) ==
    [i \in 1..Len(data) |->
        IF i - 1 >= start /\ i - 1 < start + count THEN v ELSE data[i]]

WriteValues(data, start, values) ==
    [i \in 1..Len(data) |->
        IF i - 1 >= start /\ i - 1 < start + Len(values)
        THEN values[i - start] ELSE data[i]]

DecompressReturn(res, dest, base, offset) ==
    [res |-> res, sram |-> [position |-> base + offset, data |-> dest]]

DecompressPanic(what, dest, base) ==
    [res |-> Panicked(what), sram |-> [position |-> base, data |-> dest]]

RECURSIVE decompress_loop(_, _, _, _, _)
decompress_loop(data, dest, base, offset, block_index) ==
    IF ~(block_index < BLOCK_SIZE)
    THEN DecompressReturn(Err(ERR_BAD_FMT), dest, base, offset)
    ELSE IF Get(data, block_index) = RLE_BYTE
    THEN IF block_index + 1 >= BLOCK_SIZE
         THEN DecompressPanic("block index out of bounds", dest, base)
         ELSE IF Get(data, block_index + 1) = RLE_BYTE
         THEN IF base + offset >= SRAM_SIZE
              THEN DecompressPanic("sram index out of bounds", dest, base)
              ELSE decompress_loop(data, Set(dest, base + offset, RLE_BYTE),
                                   base, offset + 1, block_index + 2)
         ELSE IF block_index + 2 >= BLOCK_SIZE
         THEN DecompressPanic("block index out of bounds", dest, base)
         ELSE LET byte_value == Get(data, block_index + 1)
                  byte_repeat == Get(data, block_index + 2)
              IN  IF base + offset + byte_repeat > SRAM_SIZE
                  THEN DecompressPanic("sram index out of bounds",
                           Fill(dest, base + offset, byte_repeat, byte_value), base)
                  ELSE decompress_loop(data,
                           Fill(dest, base + offset, byte_repeat, byte_value),
                           base, offset + byte_repeat, block_index + 3)
    ELSE IF Get(data, block_index) = SPECIAL_BYTE
    THEN IF block_index + 1 >= BLOCK_SIZE
         THEN DecompressPanic("block index out of bounds", dest, base)
         ELSE LET next == Get(data, block_index + 1)
              IN  IF next = SPECIAL_BYTE
                  THEN IF base + offset >= SRAM_SIZE
                       THEN DecompressPanic("sram index out of bounds", dest, base)
                       ELSE decompress_loop(data, Set(dest, base + offset, SPECIAL_BYTE),
                                            base, offset + 1, block_index + 2)
                  ELSE IF next = DEF_INST_BYTE
                  THEN IF base + offset + DEF_INST_SIZE > SRAM_SIZE
                       THEN DecompressPanic("sram index out of bounds",
                                WriteValues(dest, base + offset, DEF_INST_VALUES), base)
                       ELSE decompress_loop(data,
                                WriteValues(dest, base + offset, DEF_INST_VALUES),
                                base, offset + DEF_INST_SIZE, block_index + 2)
                  ELSE IF next = DEF_WAVE_BYTE
                  THEN IF base + offset + DEF_WAVE_SIZE > SRAM_SIZE
                       THEN DecompressPanic("sram index out of bounds",
                                WriteValues(dest, base + offset, DEF_WAVE_VALUES), base)
                       ELSE decompress_loop(data,
                                WriteValues(dest, base + offset, DEF_WAVE_VALUES),
                                base, offset + DEF_WAVE_SIZE, block_index + 2)
                  ELSE IF next = EOF_BYTE
                  THEN DecompressReturn(Ok(0), dest, base, offset)
                  ELSE DecompressReturn(Ok(next), dest, base, offset)
    ELSE IF base + offset >= SRAM_SIZE
         THEN DecompressPanic("sram index out of bounds", dest, base)
         ELSE decompress_loop(data, Set(dest, base + offset, Get(data, block_index)),
                              base, offset + 1, block_index + 1)

decompress(data, dest) ==
    decompress_loop(data, dest.data, dest.position, 0, 0)

(***************************************************************************)
(* LsdjSram::compress, compression.rs:198-277.                             *)
(* Every store into the block is dest.data[block_index] = b followed by    *)
(* block_index += 1 (the second byte of a closing token is stored without  *)
(* the increment); a store at an index >= BLOCK_SIZE panics.  The result   *)
(* names in `top` the highest block index the call stored to, or tried to. *)
(***************************************************************************)
\* the stores of `bytes` at block_index, block_index + 1, ...: the block after
\* the stores that are in range
Stores(dest, block_index, bytes) ==
    [i \in 1..Len(dest) |->
        IF i - 1 >= block_index /\ i - 1 < block_index + Len(bytes)
        THEN bytes[i - block_index] ELSE dest[i]]

StoresFit(block_index, bytes) == block_index + Len(bytes) <= BLOCK_SIZE

CompressReturn(res, dest, position, top) ==
    [res |-> res, block |-> dest, position |-> position, top |-> top]

\* the panic of a store: the first index of the stores that is out of range
CompressPanic(dest, block_index, bytes, position) ==
    CompressReturn(Panicked("block index out of bounds"),
                   Stores(dest, block_index, bytes), position,
                   IF block_index < BLOCK_SIZE THEN BLOCK_SIZE ELSE block_index)

\* a lookahead that does not stop the run counter
RECURSIVE lookahead_loop_uncapped(_, _, _, _)
lookahead_loop_uncapped(data, at, lookahead, repeat) ==
    IF at + lookahead < SRAM_SIZE
       /\ Get(data, at) = Get(data, at + lookahead)
    THEN lookahead_loop_uncapped(data, at, lookahead + 1, repeat + 1)
    ELSE repeat

\* compression.rs:242-252: the length of the run that starts at base + offset
RECURSIVE lookahead_loop(_, _, _, _)
lookahead_loop(data, at, lookahead, repeat) ==
    IF at + lookahead < SRAM_SIZE /\ repeat < REPEAT_MAX
       /\ Get(data, at) = Get(data, at + lookahead)
    THEN lookahead_loop(data, at, lookahead + 1, repeat + 1)
    ELSE repeat

\* compression.rs:221: the room the compressor asks for before a token
HEADROOM == 4

NoHeadroom(block_index) == block_index + HEADROOM > BLOCK_SIZE

RECURSIVE compress_loop(_, _, _, _, _, _)
compress_loop(data, base, offset, dest, block_index, block_num) ==
    IF ~(base + offset < SRAM_SIZE)
    THEN \* compression.rs:272-276
         LET bytes == <<SPECIAL_BYTE, EOF_BYTE>>
         IN  IF StoresFit(block_index, bytes)
             THEN CompressReturn(Ok(0), Stores(dest, block_index, bytes),
                                 base + offset, block_index + 1)
             ELSE CompressPanic(dest, block_index, bytes, base)
    ELSE LET byte == Get(data, base + offset)
         IN
         IF byte = RLE_BYTE \/ byte = SPECIAL_BYTE
         THEN \* compression.rs:206-219: the byte doubled, no room asked for
              LET bytes == <<byte, byte>>
              IN  IF StoresFit(block_index, bytes)
                  THEN compress_loop(data, base, offset + 1,
                                     Stores(dest, block_index, bytes),
                                     block_index + 2, block_num)
                  ELSE CompressPanic(dest, block_index, bytes, base)
         ELSE IF NoHeadroom(block_index)
         THEN \* compression.rs:221-226
              LET bytes == <<SPECIAL_BYTE, (block_num + 1) % U8_WRAP>>
              IN  IF StoresFit(block_index, bytes)
                  THEN CompressReturn(Ok((block_num + 1) % U8_WRAP),
                                      Stores(dest, block_index, bytes),
                                      base + offset, block_index + 1)
                  ELSE CompressPanic(dest, block_index, bytes, base)
         ELSE IF base + offset + DEF_INST_SIZE <= SRAM_SIZE
                 /\ is_def_inst(Slice(data, base + offset, base + offset + DEF_INST_SIZE))
         THEN compress_loop(data, base, offset + DEF_INST_SIZE,
                            Stores(dest, block_index, <<SPECIAL_BYTE, DEF_INST_BYTE>>),
                            block_index + 2, block_num)
         ELSE IF base + offset + DEF_WAVE_SIZE <= SRAM_SIZE
                 /\ is_def_wave(Slice(data, base + offset, base + offset + DEF_WAVE_SIZE))
         THEN \* compression.rs:240 advances by DEF_INST_SIZE
              compress_loop(data, base, offset + DEF_INST_SIZE,
                            Stores(dest, block_index, <<SPECIAL_BYTE, DEF_WAVE_BYTE>>),
                            block_index + 2, block_num)
         ELSE LET repeat == lookahead_loop(data, base + offset, 1, 1)
              IN  IF repeat <= 3
                  THEN compress_loop(data, base, offset + repeat,
                                     Stores(dest, block_index, [k \in 1..repeat |-> byte]),
                                     block_index + repeat, block_num)
                  ELSE compress_loop(data, base, offset + repeat,
                                     Stores(dest, block_index, <<RLE_BYTE, byte, repeat>>),
                                     block_index + 3, block_num)

compress(sram, dest, block_num) ==
    compress_loop(sram.data, sram.position, 0, dest, 0, block_num)

(***************************************************************************)
(* State.                                                                  *)
(*   Codec: the SRAM being compressed, the Vec<LsdjBlock> the blocks go to *)
(*   and come from, the SRAM being decompressed into, and the locals of    *)
(*   the two loops compress_into and decompress_to.                        *)
(*   Save: the fields of LsdjSave that import, export and reserve touch.   *)
(***************************************************************************)
VARIABLES
    pc,                  \* where the codec run is: which loop, or how it ended
    scenario,            \* what the run was started as, its first cursor and
                         \* the list index decompress_to starts at
    sram,                \* LsdjSram compressed from: [position, data]
    blocks,              \* Vec<LsdjBlock>
    current_block,       \* compress_into's current_block
    blocks_written,      \* compress_into's blocks_written (u8)
    last_compress,       \* the last compress() call: its result, the highest
                         \* index stored to, the cursor it started at, its
                         \* block_num and the block it left
    compress_result,     \* what compress_into returned
    dest,                \* LsdjSram decompressed into: [position, data]
    current_index,       \* decompress_to's current_index
    blocks_decompressed, \* decompress_to's blocks_decompressed (u8)
    last_decompress,     \* the last decompress() call's result
    decompress_result,   \* what decompress_to returned
    alloc_table,         \* LsdjMetadata::alloc_table
    title_table,         \* LsdjMetadata::title_table
    block_table,         \* LsdjSave::blocks
    metadata,            \* the other fields of LsdjMetadata: version_table,
                         \* empty_bytes, sram_init_chk, working_song
    last,                \* the last call on the save, its arguments and result
    calls                \* how many calls were made on the save

codec_vars == <<pc, scenario, sram, blocks, current_block, blocks_written,
                last_compress, compress_result, dest, current_index,
                blocks_decompressed, last_decompress, decompress_result>>
save_vars == <<alloc_table, title_table, block_table, metadata, last, calls>>
vars == <<codec_vars, save_vars>>

NoCompress ==
    [res |-> NoResult, top |-> 0, base |-> 0, num |-> 0, block |-> EmptyBlock]

(***************************************************************************)
(* Inputs of the codec runs.                                               *)
(***************************************************************************)
\* the longest free prefix of an SRAM input
MaxPrefix == 4
\* the highest cursor compress_into is started at
MaxStart == 2
\* the longest block list decompress_to is started on
MaxList == 2

SeqsUpTo(S, n) == UNION {[1..k -> S] : k \in 0..n}

\* an SRAM image: the given bytes, zero after them, cut at SRAM_SIZE
FitSram(bytes) == [i \in 1..SRAM_SIZE |-> IF i <= Len(bytes) THEN bytes[i] ELSE 0]

SramAlphabet == {RLE_BYTE, SPECIAL_BYTE, 65, 66}

\* SRAM images: any short byte string, then nothing or a dictionary pattern
\* (cut by the end of the SRAM when the prefix is long), then zeros
SramInputs ==
    {FitSram(prefix \o middle) :
        prefix \in SeqsUpTo(SramAlphabet, MaxPrefix),
        middle \in {<<>>, DEF_INST_VALUES, DEF_WAVE_VALUES}}

DecodeAlphabet == {1, RLE_BYTE, SPECIAL_BYTE, DEF_INST_BYTE, EOF_BYTE}

\* every block over the bytes that steer the decompressor
AnyBlocks == [1..BLOCK_SIZE -> DecodeAlphabet]

\* a block of `lits` literal bytes and then the token (SPECIAL_BYTE, n)
ChainBlock(lits, n) ==
    [i \in 1..BLOCK_SIZE |->
        IF i <= lits THEN 65
        ELSE IF i = lits + 1 THEN SPECIAL_BYTE
        ELSE IF i = lits + 2 THEN n
        ELSE 0]

\* blocks that end in a token, and one that never does
ChainBlocks ==
    {ChainBlock(lits, n) : lits \in 0..1, n \in (0..(MaxList + 1)) \cup {EOF_BYTE}}
    \cup {[i \in 1..BLOCK_SIZE |-> 65]}

BlockLists ==
    {<<b>> : b \in AnyBlocks}
    \cup UNION {[1..k -> ChainBlocks] : k \in 1..MaxList}

DestStarts == {0, SRAM_SIZE - 2, SRAM_SIZE}

SaveIdle ==
    /\ alloc_table = <<>>
    /\ title_table = <<>>
    /\ block_table = <<>>
    /\ metadata = <<>>
    /\ last = [op |-> "none"]
    /\ calls = 0

(***************************************************************************)
(* The codec runs.  A round trip is the test check_sram_compression        *)
(* (compression.rs:392-402): compress_into(blocks, 1) on an empty Vec,     *)
(* then decompress_to(fresh SRAM, 0).  A decode run is decompress_to on a  *)
(* given Vec from a given index.                                           *)
(***************************************************************************)
CodecInit ==
    /\ \/ /\ pc = "compress_into"
          /\ sram \in [position : 0..MaxStart, data : SramInputs]
          /\ scenario = [kind |-> "roundtrip", cursor |-> sram.position, start |-> 0]
          /\ blocks = <<>>
          /\ dest = EmptySram
          /\ current_index = 0
       \/ /\ pc = "decompress_to"
          /\ sram = EmptySram
          /\ blocks \in BlockLists
          /\ dest \in [position : DestStarts, data : {EmptySramData}]
          /\ current_index \in 0..MaxList
          /\ scenario = [kind |-> "decode", cursor |-> dest.position,
                         start |-> current_index]
    /\ current_block = 1
    /\ blocks_written = 0
    /\ last_compress = NoCompress
    /\ compress_result = NoResult
    /\ blocks_decompressed = 0
    /\ last_decompress = NoResult
    /\ decompress_result = NoResult
    /\ SaveIdle

\* One turn of compress_into's loop, compression.rs:284-300, and its return.
compress_into_iter ==
    /\ pc = "compress_into"
    /\ LET pushed == Append(blocks, EmptyBlock)
       IN  IF current_block - 1 >= Len(pushed)
           THEN /\ pc' = "panic"
                /\ blocks' = pushed
                /\ UNCHANGED <<sram, current_block, blocks_written,
                               last_compress, compress_result>>
           ELSE LET r == compress(sram, Get(pushed, current_block - 1),
                                  current_block % U8_WRAP)
                IN  /\ blocks' = Set(pushed, current_block - 1, r.block)
                    /\ sram' = [sram EXCEPT !.position = r.position]
                    /\ last_compress' = [res |-> r.res, top |-> r.top,
                                         base |-> sram.position,
                                         num |-> current_block % U8_WRAP,
                                         block |-> r.block]
                    /\ IF r.res.kind = "panic"
                       THEN /\ pc' = "panic"
                            /\ UNCHANGED <<current_block, blocks_written,
                                           compress_result>>
                       ELSE /\ blocks_written' = (blocks_written + 1) % U8_WRAP
                            /\ IF r.res.val = 0
                               THEN /\ pc' = "compressed"
                                    /\ compress_result' = Ok(blocks_written')
                                    /\ UNCHANGED current_block
                               ELSE /\ pc' = "compress_into"
                                    /\ current_block' = r.res.val
                                    /\ UNCHANGED compress_result
    /\ UNCHANGED <<scenario, dest, current_index, blocks_decompressed,
                   last_decompress, decompress_result>>
    /\ UNCHANGED save_vars

\* compression.rs:398-399: the blocks are decompressed into a fresh SRAM.
call_decompress_to ==
    /\ pc = "compressed"
    /\ pc' = "decompress_to"
    /\ dest' = EmptySram
    /\ current_index' = 0
    /\ blocks_decompressed' = 0
    /\ UNCHANGED <<scenario, sram, blocks, current_block, blocks_written,
                   last_compress, compress_result, last_decompress,
                   decompress_result>>
    /\ UNCHANGED save_vars

\* a walk that takes the block number for the list index
next_index_unshifted(n) == n

\* compression.rs:177: the list index of block number n
next_index(n) == n - 1

\* One turn of decompress_to's loop, compression.rs:165-181, and its return.
\* blocks_decompressed is a u8: the 256th block overflows it, which panics in
\* a build with overflow checks and wraps in one without.
decompress_to_iter ==
    /\ pc = "decompress_to"
    /\ IF ~(current_index < Len(blocks))
       THEN /\ pc' = "done"
            /\ decompress_result' = Ok(blocks_decompressed)
            /\ UNCHANGED <<dest, current_index, blocks_decompressed, last_decompress>>
       ELSE LET r == decompress(Get(blocks, current_index), dest)
            IN  /\ dest' = r.sram
                /\ last_decompress' = r.res
                /\ IF r.res.kind = "panic"
                   THEN /\ pc' = "panic"
                        /\ UNCHANGED <<current_index, blocks_decompressed,
                                       decompress_result>>
                   ELSE IF r.res.kind = "Err"
                   THEN /\ pc' = "done"
                        /\ decompress_result' = r.res
                        /\ UNCHANGED <<current_index, blocks_decompressed>>
                   ELSE \/ /\ blocks_decompressed + 1 >= U8_WRAP
                           /\ pc' = "panic"
                           /\ UNCHANGED <<current_index, blocks_decompressed,
                                          decompress_result>>
                        \/ /\ blocks_decompressed' = (blocks_decompressed + 1) % U8_WRAP
                           /\ IF r.res.val = 0
                              THEN /\ pc' = "done"
                                   /\ decompress_result' = Ok(blocks_decompressed')
                                   /\ UNCHANGED current_index
                              ELSE /\ pc' = "decompress_to"
                                   /\ current_index' = next_index(r.res.val)
                                   /\ UNCHANGED decompress_result
    /\ UNCHANGED <<scenario, sram, blocks, current_block, blocks_written,
                   last_compress, compress_result>>
    /\ UNCHANGED save_vars

CodecNext ==
    \/ compress_into_iter
    \/ call_decompress_to
    \/ decompress_to_iter

CodecSpec == CodecInit /\ [][CodecNext]_vars

(***************************************************************************)
(* decompress_to alone, compression.rs:161-182, on lists of blocks that    *)
(* end in a chain pointer or an end-of-data token.  The loop is sequential *)
(* code: while a turn can be taken, one is taken.                          *)
(***************************************************************************)
WalkInit ==
    /\ CodecInit
    /\ pc = "decompress_to"
    /\ \A i \in 1..Len(blocks) : blocks[i] \in ChainBlocks

WalkNext == decompress_to_iter

WalkSpec == WalkInit /\ [][WalkNext]_vars /\ WF_vars(WalkNext)

(***************************************************************************)
(* The block allocation table, metadata.rs:143-235.  Block numbers are     *)
(* one-based: block b's entry is alloc_table[b - 1] in the source, which   *)
(* is table[b] of the sequence here.                                       *)
(***************************************************************************)
Some(v) == [some |-> TRUE, v |-> v]
None == [some |-> FALSE, v |-> 0]

\* metadata.rs:147-149
is_allocated(table, block_index) == Get(table, block_index - 1) # FREE

\* Faulty variants of the operators below; each property of the save is also
\* tried against the variant that breaks it.
\* the highest free block instead of the lowest
next_empty_block_highest(table) ==
    LET empty == {block \in 1..Len(table) : Get(table, block - 1) = FREE}
    IN  IF empty = {} THEN None
        ELSE Some(CHOOSE block \in empty : \A other \in empty : block >= other)

\* a reserve that does not look at the entry
reserve_unchecked(table, block, song) ==
    IF block < 1 \/ block > Len(table)
    THEN [res |-> Panicked("alloc_table index out of bounds"), table |-> table]
    ELSE [res |-> Ok(0), table |-> Set(table, block - 1, song)]

\* a reserve that reports success on a taken entry
reserve_silent(table, block, song) ==
    IF block < 1 \/ block > Len(table)
    THEN [res |-> Panicked("alloc_table index out of bounds"), table |-> table]
    ELSE IF Get(table, block - 1) # FREE
    THEN [res |-> Ok(0), table |-> table]
    ELSE [res |-> Ok(0), table |-> Set(table, block - 1, song)]

\* the count of the free entries, as the doc comment of blocks_used words it
blocks_used_free(table) == Cardinality({i \in 1..Len(table) : table[i] = FREE})

\* next_available_song without the test for a full table
RECURSIVE next_available_song_unchecked_loop(_, _, _)
next_available_song_unchecked_loop(table, song, i) ==
    IF i >= SONG_SLOTS THEN song
    ELSE IF \E k \in 1..Len(table) : table[k] = song
    THEN next_available_song_unchecked_loop(table, song + 1, i + 1)
    ELSE next_available_song_unchecked_loop(table, song, i + 1)

next_available_song_unchecked(table) ==
    LET song == next_available_song_unchecked_loop(table, 0, 0)
    IN  IF song >= SONG_SLOTS THEN None ELSE Some(song)

\* next_available_song in one pass over the table
RECURSIVE next_available_song_one_pass_loop(_, _, _)
next_available_song_one_pass_loop(table, song, k) ==
    IF k > Len(table) THEN song
    ELSE IF table[k] = song
    THEN next_available_song_one_pass_loop(table, song + 1, k + 1)
    ELSE next_available_song_one_pass_loop(table, song, k + 1)

next_available_song_one_pass(table) ==
    IF Cardinality({i \in 1..Len(table) : table[i] # FREE}) = ALLOC_TABLE_LENGTH
    THEN None
    ELSE LET song == next_available_song_one_pass_loop(table, 0, 1)
         IN  IF song >= SONG_SLOTS THEN None ELSE Some(song)

\* metadata.rs:155-160
next_empty_block(table) ==
    LET empty == {block \in 1..Len(table) : ~is_allocated(table, block)}
    IN  IF empty = {} THEN None
        ELSE Some(CHOOSE block \in empty : \A other \in empty : block <= other)

\* metadata.rs:165-172.  The index block - 1 is checked: block 0 or a block
\* past the table panics.
reserve(table, block, song) ==
    IF block < 1 \/ block > Len(table)
    THEN [res |-> Panicked("alloc_table index out of bounds"), table |-> table]
    ELSE IF Get(table, block - 1) # FREE
    THEN [res |-> Err(ERR_BLOCK_TAKEN), table |-> table]
    ELSE [res |-> Ok(0), table |-> Set(table, block - 1, song)]

\* metadata.rs:184-196
RECURSIVE next_block_for_loop(_, _, _, _)
next_block_for_loop(table, song, left, i) ==
    IF i >= Len(table) THEN None
    ELSE IF Get(table, i) = song
    THEN IF left = 0 THEN Some(i + 1)
         ELSE next_block_for_loop(table, song, left - 1, i + 1)
    ELSE next_block_for_loop(table, song, left, i + 1)

next_block_for(table, song, skip) == next_block_for_loop(table, song, skip, 0)

\* metadata.rs:199-205
size_of(table, song) == Cardinality({i \in 1..Len(table) : table[i] = song})

\* metadata.rs:212-218
blocks_used(table) == Cardinality({i \in 1..Len(table) : table[i] # FREE})

\* metadata.rs:222-235: SONG_SLOTS passes, each moving song on by one when
\* some entry holds it
RECURSIVE next_available_song_loop(_, _, _)
next_available_song_loop(table, song, i) ==
    IF i >= SONG_SLOTS THEN song
    ELSE IF \E k \in 1..Len(table) : table[k] = song
    THEN next_available_song_loop(table, song + 1, i + 1)
    ELSE next_available_song_loop(table, song, i + 1)

next_available_song(table) ==
    IF blocks_used(table) = ALLOC_TABLE_LENGTH THEN None
    ELSE LET song == next_available_song_loop(table, 0, 0)
         IN  IF song >= SONG_SLOTS THEN None ELSE Some(song)

\* test_reserve, metadata.rs:363-375: the first free song reserves the block
\* next_empty_block returns until it returns None
RECURSIVE test_reserve_loop(_, _)
test_reserve_loop(table, song) ==
    LET next_block == next_empty_block(table)
    IN  IF ~next_block.some THEN [res |-> Ok(0), table |-> table]
        ELSE LET r == reserve(table, next_block.v, song)
             IN  IF r.res.kind # "Ok" THEN r
                 ELSE test_reserve_loop(r.table, song)

test_reserve(table) ==
    LET song == next_available_song(table)
    IN  IF ~song.some THEN [res |-> Err(ERR_SONGS_FULL), table |-> table]
        ELSE test_reserve_loop(table, song.v)

\* a patcher that takes the dictionary tokens for malformed ones
skip_to_block_no_dictionary(data, block) ==
    LET escapes == {i \in 0..(Len(data) - 1) : Get(data, i) = SPECIAL_BYTE}
    IN  IF escapes = {} THEN [res |-> Err(ERR_NO_SKIP), data |-> data]
        ELSE LET i == CHOOSE e \in escapes : \A other \in escapes : e <= other
             IN  IF i + 1 >= Len(data)
                 THEN [res |-> Err(ERR_BAD_FMT), data |-> data]
                 ELSE LET n == Get(data, i + 1)
                      IN  IF (1 <= n /\ n <= BLOCK_COUNT % U8_WRAP) \/ n = PLACEHOLDER
                          THEN [res |-> Ok(0),
                                data |-> Set(data, i + 1, block % U8_WRAP)]
                          ELSE IF n = EOF_BYTE
                          THEN [res |-> Err(ERR_NO_SKIP), data |-> data]
                          ELSE [res |-> Err(ERR_BAD_FMT), data |-> data]

(***************************************************************************)
(* LsdjBlock::skip_to_block, compression.rs:132-148.  The iterator hands   *)
(* out one byte per next(): after a SPECIAL_BYTE the byte behind it is     *)
(* taken too, so the scan goes on two bytes later.                         *)
(***************************************************************************)
RECURSIVE skip_to_block_loop(_, _, _)
skip_to_block_loop(data, block, i) ==
    IF i >= Len(data) THEN [res |-> Err(ERR_NO_SKIP), data |-> data]
    ELSE IF Get(data, i) = SPECIAL_BYTE
    THEN IF i + 1 >= Len(data) THEN [res |-> Err(ERR_BAD_FMT), data |-> data]
         ELSE LET n == Get(data, i + 1)
              IN  IF (1 <= n /\ n <= BLOCK_COUNT % U8_WRAP) \/ n = PLACEHOLDER
                  THEN [res |-> Ok(0), data |-> Set(data, i + 1, block % U8_WRAP)]
                  ELSE IF n = DEF_INST_BYTE \/ n = DEF_WAVE_BYTE
                  THEN skip_to_block_loop(data, block, i + 2)
                  ELSE IF n = EOF_BYTE
                  THEN [res |-> Err(ERR_NO_SKIP), data |-> data]
                  ELSE [res |-> Err(ERR_BAD_FMT), data |-> data]
    ELSE skip_to_block_loop(data, block, i + 1)

skip_to_block(data, block) == skip_to_block_loop(data, block, 0)

(***************************************************************************)
(* LsdjSave::export_song, mod.rs:118-135.  self.blocks.0[next_block] is a  *)
(* checked index into the BLOCK_COUNT blocks.                              *)
(***************************************************************************)
RECURSIVE export_song_loop(_, _, _, _, _, _)
export_song_loop(table, blocks_tbl, song, i, num_blocks, bytes) ==
    IF i >= num_blocks THEN [res |-> Ok(0), bytes |-> bytes]
    ELSE LET next_block == next_block_for(table, song, i)
         IN  IF ~next_block.some THEN [res |-> Ok(0), bytes |-> bytes]
             ELSE IF next_block.v - 1 >= BLOCK_COUNT
             THEN [res |-> Panicked("blocks index out of bounds"), bytes |-> <<>>]
             ELSE export_song_loop(table, blocks_tbl, song, i + 1, num_blocks,
                                   bytes \o Get(blocks_tbl, next_block.v - 1))

export_song(table, blocks_tbl, song) ==
    export_song_loop(table, blocks_tbl, song, 0, size_of(table, song), <<>>)

(***************************************************************************)
(* LsdjSave::import_song, mod.rs:142-190.                                  *)
(***************************************************************************)
\* mod.rs:168-174: a block is reserved for each candidate while one is free
RECURSIVE reserve_blocks(_, _, _, _)
reserve_blocks(table, song, count, block_positions) ==
    IF count = 0
    THEN [res |-> Ok(0), table |-> table, block_positions |-> block_positions]
    ELSE LET next_block == next_empty_block(table)
         IN  IF ~next_block.some
             THEN reserve_blocks(table, song, count - 1, block_positions)
             ELSE LET r == reserve(table, next_block.v, song)
                  IN  IF r.res.kind # "Ok"
                      THEN [res |-> r.res, table |-> r.table,
                            block_positions |-> block_positions]
                      ELSE reserve_blocks(r.table, song, count - 1,
                                          Append(block_positions, next_block.v))

\* a copy that stores nothing unless every candidate can be patched
RECURSIVE copy_blocks_keeping(_, _, _, _, _)
copy_blocks_keeping(kept, blocks_tbl, blocks_vec, block_positions, num_copied) ==
    IF num_copied >= Len(block_positions) \/ num_copied >= Len(blocks_vec)
    THEN [res |-> Ok(0), block_table |-> blocks_tbl]
    ELSE LET pos == Get(block_positions, num_copied)
             block == Get(blocks_vec, num_copied)
             patched ==
                 IF num_copied < Len(blocks_vec) - 1
                 THEN IF num_copied + 1 >= Len(block_positions)
                      THEN [res |-> Err(ERR_WTF), data |-> block]
                      ELSE skip_to_block(block, Get(block_positions, num_copied + 1))
                 ELSE [res |-> Ok(0), data |-> block]
         IN  IF patched.res.kind # "Ok"
             THEN [res |-> patched.res, block_table |-> kept]
             ELSE IF pos - 1 >= BLOCK_COUNT
             THEN [res |-> Panicked("blocks index out of bounds"),
                   block_table |-> kept]
             ELSE copy_blocks_keeping(kept, Set(blocks_tbl, pos - 1, patched.data),
                                      blocks_vec, block_positions, num_copied + 1)

copy_blocks_atomic(blocks_tbl, blocks_vec, block_positions, num_copied) ==
    copy_blocks_keeping(blocks_tbl, blocks_tbl, blocks_vec, block_positions,
                        num_copied)

\* mod.rs:175-187: every candidate but the last is pointed at the next
\* reserved block, and each is stored at its own reserved block
RECURSIVE copy_blocks(_, _, _, _)
copy_blocks(blocks_tbl, blocks_vec, block_positions, num_copied) ==
    IF num_copied >= Len(block_positions) \/ num_copied >= Len(blocks_vec)
    THEN [res |-> Ok(0), block_table |-> blocks_tbl]
    ELSE LET pos == Get(block_positions, num_copied)
             block == Get(blocks_vec, num_copied)
             patched ==
                 IF num_copied < Len(blocks_vec) - 1
                 THEN IF num_copied + 1 >= Len(block_positions)
                      THEN [res |-> Err(ERR_WTF), data |-> block]
                      ELSE skip_to_block(block, Get(block_positions, num_copied + 1))
                 ELSE [res |-> Ok(0), data |-> block]
         IN  IF patched.res.kind # "Ok"
             THEN [res |-> patched.res, block_table |-> blocks_tbl]
             ELSE IF pos - 1 >= BLOCK_COUNT
             THEN [res |-> Panicked("blocks index out of bounds"),
                   block_table |-> blocks_tbl]
             ELSE copy_blocks(Set(blocks_tbl, pos - 1, patched.data),
                              blocks_vec, block_positions, num_copied + 1)

\* LsdjMetadata::title, metadata.rs:178-180
title(titles, song, t) == Set(titles, song, t)

\* a count of the free entries of the allocation table
free_blocks_of_table(table) == Len(table) - blocks_used(table)

\* mod.rs:155
free_blocks(table) == BLOCK_COUNT - blocks_used(table)

\* overflow_checks: whether the build panics on BLOCK_COUNT - blocks_used()
\* going below zero (otherwise the usize wraps to a number above any length)
import_song(table, titles, blocks_tbl, bytes, t, overflow_checks) ==
    LET Return(res, at, tt, bt) ==
            [res |-> res, alloc_table |-> at, title_table |-> tt, block_table |-> bt]
        song == next_available_song(table)
        num_blocks == Len(bytes) \div BLOCK_SIZE
        used == blocks_used(table)
    IN  IF ~song.some
        THEN Return(Err(ERR_SONGS_FULL), table, titles, blocks_tbl)
        ELSE IF Len(bytes) % BLOCK_SIZE # 0
        THEN Return(Err(ERR_BAD_FMT), table, titles, blocks_tbl)
        ELSE IF used > BLOCK_COUNT /\ overflow_checks
        THEN Return(Panicked("attempt to subtract with overflow"),
                    table, titles, blocks_tbl)
        ELSE IF used <= BLOCK_COUNT /\ num_blocks > free_blocks(table)
        THEN Return(Err(ERR_NO_BLOCKS), table, titles, blocks_tbl)
        ELSE LET blocks_vec ==
                     [i \in 1..num_blocks |->
                         Slice(bytes, (i - 1) * BLOCK_SIZE, i * BLOCK_SIZE)]
                 reserved == reserve_blocks(table, song.v, num_blocks, <<>>)
             IN  IF reserved.res.kind # "Ok"
                 THEN Return(reserved.res, reserved.table, titles, blocks_tbl)
                 ELSE LET copied == copy_blocks(blocks_tbl, blocks_vec,
                                                reserved.block_positions, 0)
                      IN  IF copied.res.kind # "Ok"
                          THEN Return(copied.res, reserved.table, titles,
                                      copied.block_table)
                          ELSE Return(Ok(song.v), reserved.table,
                                      title(titles, song.v, t),
                                      copied.block_table)

\* the sequences of a list, one after the other
RECURSIVE Flatten(_)
Flatten(list) == IF list = <<>> THEN <<>> ELSE Head(list) \o Flatten(Tail(list))

(***************************************************************************)
(* The save image: LsdjSave::bytes, mod.rs:193-207, and                    *)
(* LsdjMetadata::bytes, metadata.rs:253-276.                               *)
(***************************************************************************)
\* metadata.rs:12
TITLE_LENGTH == 8
\* metadata.rs:16: a version byte for each song
VERSION_TABLE_LENGTH == SONG_SLOTS
\* metadata.rs:18
EMPTY_BYTES_LENGTH == 30
\* metadata.rs:20
SRAM_INIT_CHK_LENGTH == 2
\* metadata.rs:25: 'j', 'k'
SRAM_INIT_CHK_BYTES == <<106, 107>>
\* the metadata region of the file: 0x200 bytes at the program's sizes
METADATA_SIZE ==
    TITLE_LENGTH * SONG_SLOTS + VERSION_TABLE_LENGTH + EMPTY_BYTES_LENGTH
    + SRAM_INIT_CHK_LENGTH + 1 + ALLOC_TABLE_LENGTH
\* mod.rs:16: the block table starts where the metadata ends (0x8200)
BLOCK_ADDRESS == SRAM_SIZE + METADATA_SIZE
\* mod.rs:17: 0x20000 = 0x8200 + 0xbf * 0x200, a block for each entry of the
\* allocation table
SAVE_SIZE == BLOCK_ADDRESS + ALLOC_TABLE_LENGTH * BLOCK_SIZE

\* the fields of the metadata that no call changes, as LsdjMetadata::empty
\* sets them (metadata.rs:105-115)
version_table == [i \in 1..VERSION_TABLE_LENGTH |-> 0]
empty_bytes == [i \in 1..EMPTY_BYTES_LENGTH |-> 0]
working_song == <<0>>

LsdjMetadata_bytes(titles, table) ==
    Flatten(titles) \o version_table \o empty_bytes \o SRAM_INIT_CHK_BYTES
    \o working_song \o table

LsdjSave_bytes(sram_data, titles, table, blocks_tbl) ==
    sram_data \o LsdjMetadata_bytes(titles, table) \o Flatten(blocks_tbl)

(***************************************************************************)
(* Inputs of the calls on the save.                                        *)
(***************************************************************************)
\* LsdjTitle values: all zero, "TEST" (mod.rs:315), "SONGNAME" (main.rs:91)
NoTitle == <<0, 0, 0, 0, 0, 0, 0, 0>>
Titles == {<<84, 69, 83, 84, 0, 0, 0, 0>>, <<83, 79, 78, 71, 78, 65, 77, 69>>}

\* a block that starts with `head`, ends with `tail` and holds 5 in between
\* (the filler of test_import_song, mod.rs:307)
Block(head, tail) ==
    [i \in 1..BLOCK_SIZE |->
        IF i <= Len(head) THEN head[i]
        ELSE IF i > BLOCK_SIZE - Len(tail) THEN tail[i - (BLOCK_SIZE - Len(tail))]
        ELSE 5]

\* the i-th candidate block of a well-formed song file: its own first byte,
\* then a chain pointer with the placeholder as the last token
SkipBlock(i) == Block(<<16 + i>>, <<SPECIAL_BYTE, PLACEHOLDER>>)
\* the last block of a song file: it ends in the end-of-data token
EofBlock(i) == Block(<<16 + i>>, <<SPECIAL_BYTE, EOF_BYTE>>)

\* blocks that try the chain patcher
OddBlocks ==
    { Block(<<>>, <<>>),                                      \* no SPECIAL_BYTE
      Block(<<>>, <<SPECIAL_BYTE>>),                          \* SPECIAL_BYTE last
      Block(<<>>, <<SPECIAL_BYTE, 2>>),                       \* a block number
      Block(<<SPECIAL_BYTE, SPECIAL_BYTE>>, <<SPECIAL_BYTE, PLACEHOLDER>>),
      Block(<<SPECIAL_BYTE, DEF_WAVE_BYTE>>, <<SPECIAL_BYTE, PLACEHOLDER>>),
      Block(<<SPECIAL_BYTE, DEF_INST_BYTE>>, <<SPECIAL_BYTE, EOF_BYTE>>),
      \* a run whose count is SPECIAL_BYTE, then the literal 1
      Block(<<RLE_BYTE, 5, SPECIAL_BYTE, 1>>, <<SPECIAL_BYTE, PLACEHOLDER>>),
      \* a run of one SPECIAL_BYTE
      Block(<<RLE_BYTE, SPECIAL_BYTE, 1>>, <<SPECIAL_BYTE, PLACEHOLDER>>) }

\* a well-formed song file of n blocks
SongFile(n) == [i \in 1..n |-> IF i < n THEN SkipBlock(i) ELSE EofBlock(i)]

\* song files of up to one block more than the save has: the well-formed one,
\* and it with one block replaced
CandidateLists ==
    UNION { {SongFile(n)}
            \cup {[SongFile(n) EXCEPT ![p] = b] : p \in 1..n, b \in OddBlocks}
            \cup {[SongFile(n) EXCEPT ![p] = SkipBlock(p)] : p \in 1..n}
            \cup {[SongFile(n) EXCEPT ![p] = EofBlock(p)] : p \in 1..n}
          : n \in 0..(BLOCK_COUNT + 1) }

\* the byte strings import_song is given: song files, and two strings whose
\* length is no multiple of BLOCK_SIZE (the first is mod.rs:304)
ImportInputs ==
    {Flatten(list) : list \in CandidateLists}
    \cup {<<1, 2, 3>>, Flatten(SongFile(1)) \o <<0>>}

\* song indices given to export_song and reserve
SongInputs == 0..(SONG_SLOTS - 1)

\* the block table of a save read from a file: block b holds b in every byte
FileBlocks == [b \in 1..BLOCK_COUNT |-> [i \in 1..BLOCK_SIZE |-> b]]

\* the blocks skip_to_block is given: up to MaxHead bytes of the patcher's
\* alphabet, the filler, and one of four ends
MaxHead == 4

PatchAlphabet ==
    {5, 2, RLE_BYTE, SPECIAL_BYTE, DEF_WAVE_BYTE, DEF_INST_BYTE, EOF_BYTE,
     PLACEHOLDER}

PatchBlocks ==
    {Block(head, tail) :
        head \in SeqsUpTo(PatchAlphabet, MaxHead),
        tail \in {<<>>, <<SPECIAL_BYTE>>, <<SPECIAL_BYTE, EOF_BYTE>>,
                  <<SPECIAL_BYTE, PLACEHOLDER>>}}

\* the target block numbers: the first block, and 0xb of test_skip_to_block
\* (compression.rs:409)
PatchTargets == {1, 11}

CodecIdle ==
    /\ pc = "idle"
    /\ scenario = [kind |-> "save", cursor |-> 0, start |-> 0]
    /\ sram = EmptySram
    /\ blocks = <<>>
    /\ current_block = 1
    /\ blocks_written = 0
    /\ last_compress = NoCompress
    /\ compress_result = NoResult
    /\ dest = EmptySram
    /\ current_index = 0
    /\ blocks_decompressed = 0
    /\ last_decompress = NoResult
    /\ decompress_result = NoResult

Snapshot == [alloc_table |-> alloc_table, title_table |-> title_table,
             block_table |-> block_table]

Call(op, song, block, bytes, t, res, out) ==
    [op |-> op, song |-> song, block |-> block, bytes |-> bytes, title |-> t,
     res |-> res, out |-> out, pre |-> Snapshot]

\* the calls made in a row on one save
MaxCalls == 3

\* the song files imported in a row: well-formed ones of up to two blocks, one
\* with no bytes at all, and one whose first block cannot be patched
SeqImportInputs ==
    {Flatten(SongFile(n)) : n \in 0..2}
    \cup {Flatten(<<Block(<<>>, <<>>), EofBlock(2)>>)}

NoCall == [op |-> "none", song |-> 0, block |-> 0, bytes |-> <<>>,
           title |-> NoTitle, res |-> NoResult, out |-> <<>>, pre |-> Snapshot]

(***************************************************************************)
(* Loading the metadata: LsdjMetadata::empty, fill and from,               *)
(* metadata.rs:105-135, check_sram_init, metadata.rs:139-141, and bytes,   *)
(* metadata.rs:253-276, on all the fields.  `region` is the file from      *)
(* TITLE_TABLE_ADDRESS on.                                                 *)
(***************************************************************************)
LsdjMetadata_empty ==
    [title_table |-> [s \in 1..SONG_SLOTS |-> NoTitle],
     version_table |-> version_table,
     empty_bytes |-> empty_bytes,
     sram_init_chk |-> SRAM_INIT_CHK_BYTES,
     working_song |-> working_song,
     alloc_table |-> [b \in 1..ALLOC_TABLE_LENGTH |-> FREE]]

OtherFields(md) ==
    [version_table |-> md.version_table, empty_bytes |-> md.empty_bytes,
     sram_init_chk |-> md.sram_init_chk, working_song |-> md.working_song]

\* a read of up to `limit` bytes at file offset `at` into the start of buf
ReadInto(buf, region, at, limit) ==
    LET n == Min(Min(limit, Len(buf)), Len(region) - at)
    IN  [i \in 1..Len(buf) |-> IF i <= n THEN region[at + i] ELSE buf[i]]

\* metadata.rs:117-128: the reads follow each other in the file; the read
\* of the SRAM_INIT_CHK_LENGTH bytes (metadata.rs:124) goes into empty_bytes
fill(md, region) ==
    LET versions_at == TITLE_LENGTH * SONG_SLOTS
        empty_at == versions_at + VERSION_TABLE_LENGTH
        chk_at == empty_at + EMPTY_BYTES_LENGTH
        working_at == chk_at + SRAM_INIT_CHK_LENGTH
        alloc_at == working_at + 1
        read_empty == ReadInto(md.empty_bytes, region, empty_at, EMPTY_BYTES_LENGTH)
    IN  [title_table |->
             [s \in 1..SONG_SLOTS |->
                 ReadInto(md.title_table[s], region, (s - 1) * TITLE_LENGTH,
                          TITLE_LENGTH)],
         version_table |-> ReadInto(md.version_table, region, versions_at,
                                    VERSION_TABLE_LENGTH),
         empty_bytes |-> ReadInto(read_empty, region, chk_at, SRAM_INIT_CHK_LENGTH),
         sram_init_chk |-> md.sram_init_chk,
         working_song |-> ReadInto(md.working_song, region, working_at, 1),
         alloc_table |-> ReadInto(md.alloc_table, region, alloc_at,
                                  ALLOC_TABLE_LENGTH)]

\* metadata.rs:131-135
LsdjMetadata_from(region) == fill(LsdjMetadata_empty, region)

\* metadata.rs:139-141
check_sram_init(md) == md.sram_init_chk = SRAM_INIT_CHK_BYTES

\* metadata.rs:253-276
bytes_of(md) ==
    Flatten(md.title_table) \o md.version_table \o md.empty_bytes
    \o md.sram_init_chk \o md.working_song \o md.alloc_table

\* the metadata regions loaded: titles, version bytes, reserved bytes that
\* are not all zero, an init check that is 'jk' or not, a working song and
\* an allocation table
MetadataInputs ==
    {Flatten(titles) \o versions \o (head \o [i \in 1..(EMPTY_BYTES_LENGTH - 3) |-> 0])
        \o chk \o <<working>> \o table :
        titles \in [1..SONG_SLOTS -> {NoTitle, <<84, 69, 83, 84, 0, 0, 0, 0>>}],
        versions \in [1..VERSION_TABLE_LENGTH -> {0, 3}],
        head \in [1..3 -> {0, 106}] \cup {<<106, 107, 0>>},
        chk \in {SRAM_INIT_CHK_BYTES, <<0, 0>>, <<107, 106>>},
        working \in {0, 1},
        table \in [1..ALLOC_TABLE_LENGTH -> {0, FREE}]}

(***************************************************************************)
(* The calls on a save.  A panic ends the program.                         *)
(***************************************************************************)
Running == last.res.kind # "panic"

ImportSongOf(inputs) ==
    /\ Running
    /\ \E bytes \in inputs, t \in Titles :
       \E overflow_checks \in IF blocks_used(alloc_table) > BLOCK_COUNT
                              THEN BOOLEAN ELSE {TRUE} :
          LET r == import_song(alloc_table, title_table, block_table,
                               bytes, t, overflow_checks)
          IN  /\ alloc_table' = r.alloc_table
              /\ title_table' = r.title_table
              /\ block_table' = r.block_table
              /\ last' = Call("import_song", 0, 0, bytes, t, r.res, <<>>)
    /\ calls' = calls + 1
    /\ UNCHANGED <<codec_vars, metadata>>

ExportSongOf(songs) ==
    /\ Running
    /\ \E song \in songs :
          LET r == export_song(alloc_table, block_table, song)
          IN  last' = Call("export_song", song, 0, <<>>, NoTitle, r.res, r.bytes)
    /\ calls' = calls + 1
    /\ UNCHANGED <<alloc_table, title_table, block_table>>
    /\ UNCHANGED <<codec_vars, metadata>>

ReserveOf(block_numbers) ==
    /\ Running
    /\ \E block \in block_numbers, song \in SongInputs :
          LET r == reserve(alloc_table, block, song)
          IN  /\ alloc_table' = r.table
              /\ last' = Call("reserve", song, block, <<>>, NoTitle, r.res, <<>>)
    /\ calls' = calls + 1
    /\ UNCHANGED <<title_table, block_table>>
    /\ UNCHANGED <<codec_vars, metadata>>

\* test_reserve on the table of the save
TestReserveOf ==
    /\ Running
    /\ LET r == test_reserve(alloc_table)
       IN  /\ alloc_table' = r.table
           /\ last' = Call("test_reserve", 0, 0, <<>>, NoTitle, r.res, <<>>)
    /\ calls' = calls + 1
    /\ UNCHANGED <<title_table, block_table>>
    /\ UNCHANGED <<codec_vars, metadata>>

\* skip_to_block on a block of its own: last.bytes is the block given,
\* last.out the block left
SkipToBlockOf(given, targets) ==
    /\ Running
    /\ \E data \in given, block \in targets :
          LET r == skip_to_block(data, block)
          IN  last' = Call("skip_to_block", 0, block, data, NoTitle, r.res, r.data)
    /\ calls' = calls + 1
    /\ UNCHANGED <<alloc_table, title_table, block_table>>
    /\ UNCHANGED <<codec_vars, metadata>>

(***************************************************************************)
(* The program, main.rs:57-100: LsdjSave::from a file (mod.rs:96-101),     *)
(* which may hold any allocation table, and then one call on it.           *)
(***************************************************************************)
Init ==
    /\ alloc_table \in [1..ALLOC_TABLE_LENGTH -> SongInputs \cup {FREE}]
    /\ title_table = [s \in 1..SONG_SLOTS |-> NoTitle]
    /\ block_table = FileBlocks
    /\ metadata = OtherFields(LsdjMetadata_empty)
    /\ last = NoCall
    /\ calls = 0
    /\ CodecIdle

ImportSong == calls = 0 /\ ImportSongOf(ImportInputs)

ExportSong == calls = 0 /\ ExportSongOf(0..SONG_SLOTS)

Reserve == calls = 0 /\ ReserveOf(0..(ALLOC_TABLE_LENGTH + 1))

TestReserve == calls = 0 /\ TestReserveOf

Next ==
    \/ ImportSong
    \/ ExportSong
    \/ Reserve
    \/ TestReserve

Spec == Init /\ [][Next]_vars

(***************************************************************************)
(* The library used on one save for several calls in a row, from           *)
(* LsdjSave::empty() (mod.rs:87-93) with the block table of a file.        *)
(***************************************************************************)
SeqInit ==
    /\ alloc_table = [b \in 1..ALLOC_TABLE_LENGTH |-> FREE]
    /\ title_table = [s \in 1..SONG_SLOTS |-> NoTitle]
    /\ block_table = FileBlocks
    /\ metadata = OtherFields(LsdjMetadata_empty)
    /\ last = NoCall
    /\ calls = 0
    /\ CodecIdle

SeqImportSong == calls < MaxCalls /\ ImportSongOf(SeqImportInputs)

SeqReserve == calls < MaxCalls /\ ReserveOf(1..ALLOC_TABLE_LENGTH)

SeqNext ==
    \/ SeqImportSong
    \/ SeqReserve

SeqSpec == SeqInit /\ [][SeqNext]_vars

(***************************************************************************)
(* The chain patcher on a block of its own, as in test_skip_to_block       *)
(* (compression.rs:405-413); the save is the empty one and stays so.       *)
(***************************************************************************)
PatchInit == SeqInit

SkipToBlock == calls = 0 /\ SkipToBlockOf(PatchBlocks, PatchTargets)

PatchNext == SkipToBlock

PatchSpec == PatchInit /\ [][PatchNext]_vars

(***************************************************************************)
(* A save file loaded and written back with no call in between, as        *)
(* main.rs:64 and main.rs:94-95 do around an import.  last.bytes is the    *)
(* metadata region of the file, last.out the one written.                  *)
(***************************************************************************)
LoadInit ==
    /\ alloc_table = <<>>
    /\ title_table = <<>>
    /\ block_table = FileBlocks
    /\ metadata = <<>>
    /\ \E region \in MetadataInputs :
          last = [op |-> "file", song |-> 0, block |-> 0, bytes |-> region,
                  title |-> NoTitle, res |-> NoResult, out |-> <<>>,
                  pre |-> <<>>]
    /\ calls = 0
    /\ CodecIdle

\* the save as a record of all the fields of its metadata
Loaded ==
    [title_table |-> title_table, version_table |-> metadata.version_table,
     empty_bytes |-> metadata.empty_bytes,
     sram_init_chk |-> metadata.sram_init_chk,
     working_song |-> metadata.working_song, alloc_table |-> alloc_table]

Load ==
    /\ last.op = "file"
    /\ LET md == LsdjMetadata_from(last.bytes)
       IN  /\ title_table' = md.title_table
           /\ alloc_table' = md.alloc_table
           /\ metadata' = OtherFields(md)
    /\ last' = [last EXCEPT !.op = "from", !.res = Ok(0)]
    /\ calls' = calls + 1
    /\ UNCHANGED <<block_table, codec_vars>>

Serialize ==
    /\ last.op = "from"
    /\ last' = [last EXCEPT !.op = "bytes", !.out = bytes_of(Loaded)]
    /\ calls' = calls + 1
    /\ UNCHANGED <<alloc_table, title_table, block_table, metadata, codec_vars>>

LoadNext ==
    \/ Load
    \/ Serialize

LoadSpec == LoadInit /\ [][LoadNext]_vars

(***************************************************************************)
(* Properties of the codec, checked on CodecSpec.                          *)
(***************************************************************************)
\* C1: compress_into from cursor 0 with first_block 1 into an empty list and
\* then decompress_to from index 0 into an empty SRAM never fails, and ends
\* with the SRAM data it started from.
RoundTrip ==
    (scenario.kind = "roundtrip" /\ scenario.cursor = 0) =>
        /\ pc # "panic"
        /\ compress_result.kind # "Err"
        /\ pc = "done" => /\ decompress_result.kind = "Ok"
                          /\ dest.data = sram.data

\* C2: from every cursor, every byte compress writes lands at a block index
\* below BLOCK_SIZE.
CompressStaysInBlock ==
    scenario.kind = "roundtrip" => last_compress.top < BLOCK_SIZE

\* C3: on every block and every destination cursor, decompress stops at a
\* terminal token or returns the format error: it never reads past the block,
\* never writes past the SRAM, never aborts.
DecompressTotal ==
    scenario.kind = "decode" =>
        /\ last_decompress.kind # "panic"
        /\ last_decompress.kind = "Err" => last_decompress.err = ERR_BAD_FMT

(***************************************************************************)
(* Properties of the save.  last.pre holds the tables the last call found. *)
(***************************************************************************)
Imported == last.op = "import_song" /\ last.res.kind = "Ok"

NumCandidates == Len(last.bytes) \div BLOCK_SIZE

\* the i-th candidate block of the imported bytes, from 0
Candidate(i) == Slice(last.bytes, i * BLOCK_SIZE, (i + 1) * BLOCK_SIZE)

Owned(table, song) == {b \in 1..Len(table) : table[b] = song}

\* the free ones among the blocks of the block table
FreeBlocks(table) == {b \in 1..BLOCK_COUNT : table[b] = FREE}

Lowest(S, n) == {b \in S : Cardinality({c \in S : c < b}) < n}

Untouched ==
    /\ alloc_table = last.pre.alloc_table
    /\ title_table = last.pre.title_table
    /\ block_table = last.pre.block_table

\* every song index owns a block, or every entry is used
NoSongFree(table) ==
    \/ \A song \in 0..(SONG_SLOTS - 1) : Owned(table, song) # {}
    \/ \A b \in 1..Len(table) : table[b] # FREE

\* C4: when import_song returns Ok(s), s is the lowest song index that owned
\* no block, exactly the N lowest blocks that were free are now owned by s,
\* the title of s is the given one, and every other entry and title is as it
\* was.
ImportOwnership ==
    Imported =>
        LET s == last.res.val
            taken == Lowest(FreeBlocks(last.pre.alloc_table), NumCandidates)
        IN  /\ s \in 0..(SONG_SLOTS - 1)
            /\ Owned(last.pre.alloc_table, s) = {}
            /\ \A lower \in 0..(s - 1) : Owned(last.pre.alloc_table, lower) # {}
            /\ Cardinality(taken) = NumCandidates
            /\ \A b \in 1..ALLOC_TABLE_LENGTH :
                  alloc_table[b] = IF b \in taken THEN s
                                   ELSE last.pre.alloc_table[b]
            /\ \A k \in 1..SONG_SLOTS :
                  title_table[k] = IF k = s + 1 THEN last.title
                                   ELSE last.pre.title_table[k]

\* an import into a table with owned blocks between the free ones it took
ImportOwnershipCase ==
    /\ Imported
    /\ last.res.val > 0
    /\ NumCandidates >= 2
    /\ \E low, mid, high \in 1..BLOCK_COUNT :
          /\ low < mid /\ mid < high
          /\ last.pre.alloc_table[low] = FREE /\ alloc_table[low] = last.res.val
          /\ last.pre.alloc_table[mid] # FREE
          /\ last.pre.alloc_table[high] = FREE /\ alloc_table[high] = last.res.val

\* the stored block is the candidate with one byte changed, and a decoder
\* reads the candidate's data from it and then a jump to block `next`
PointsAt(stored, candidate, next) ==
    /\ \E k \in 0..(BLOCK_SIZE - 1) : stored = Set(candidate, k, next)
    /\ decompress(stored, EmptySram).res = Ok(next)
    /\ decompress(stored, EmptySram).sram = decompress(candidate, EmptySram).sram

\* C5: after a successful import of N candidates as song s, for every
\* i < N-1 the block at next_block_for(s, i) is the i-th candidate with its
\* chain pointer set to next_block_for(s, i+1), and the block at
\* next_block_for(s, N-1) is the last candidate, byte for byte.
ChainAgrees ==
    Imported =>
        \A i \in 0..(NumCandidates - 1) :
            LET here == next_block_for(alloc_table, last.res.val, i)
                next == next_block_for(alloc_table, last.res.val, i + 1)
            IN  /\ here.some
                /\ here.v <= BLOCK_COUNT
                /\ IF i < NumCandidates - 1
                   THEN /\ next.some
                        /\ PointsAt(block_table[here.v], Candidate(i), next.v)
                   ELSE block_table[here.v] = Candidate(i)

\* C6, as stated: import_song fails with the format error when the length is
\* no multiple of BLOCK_SIZE, with SongsFull when no song slot is free, with
\* NotEnoughBlocks when N exceeds the free blocks; each time the tables are
\* as before the call.
ImportErrors ==
    last.op = "import_song" =>
        /\ Len(last.bytes) % BLOCK_SIZE # 0 =>
              last.res = Err(ERR_BAD_FMT) /\ Untouched
        /\ NoSongFree(last.pre.alloc_table) =>
              last.res = Err(ERR_SONGS_FULL) /\ Untouched
        /\ NumCandidates > Cardinality(FreeBlocks(last.pre.alloc_table)) =>
              last.res = Err(ERR_NO_BLOCKS) /\ Untouched

\* C6, amended: import_song fails with SongsFull when no song slot is free;
\* when one is, with the format error when the length is no multiple of
\* BLOCK_SIZE; when one is and the length is a multiple, with NotEnoughBlocks
\* when N exceeds the free blocks; each time the tables are as before the
\* call.
ImportErrorsInOrder ==
    last.op = "import_song" =>
        /\ NoSongFree(last.pre.alloc_table) =>
              last.res = Err(ERR_SONGS_FULL) /\ Untouched
        /\ (/\ ~NoSongFree(last.pre.alloc_table)
            /\ Len(last.bytes) % BLOCK_SIZE # 0) =>
              last.res = Err(ERR_BAD_FMT) /\ Untouched
        /\ (/\ ~NoSongFree(last.pre.alloc_table)
            /\ Len(last.bytes) % BLOCK_SIZE = 0
            /\ NumCandidates > Cardinality(FreeBlocks(last.pre.alloc_table))) =>
              last.res = Err(ERR_NO_BLOCKS) /\ Untouched

\* an import of more blocks than are free into a save with songs and a free
\* song slot, and one of a ragged length into a save with no song slot free
ImportErrorsCase ==
    /\ last.op = "import_song"
    /\ \/ /\ last.res = Err(ERR_NO_BLOCKS)
          /\ ~NoSongFree(last.pre.alloc_table)
          /\ Owned(last.pre.alloc_table, 0) # {}
          /\ FreeBlocks(last.pre.alloc_table) # {}
          /\ NumCandidates > Cardinality(FreeBlocks(last.pre.alloc_table))
       \/ /\ last.res = Err(ERR_BAD_FMT)
          /\ Len(last.bytes) > BLOCK_SIZE
          /\ Owned(last.pre.alloc_table, 0) # {}

\* C7: whenever next_available_song() is None before the call, which is when
\* every song index owns a block or every entry is used, import_song returns
\* SongsFull for every byte string, one of a ragged length too.
SongsFullFirst ==
    last.op = "import_song" =>
        /\ NoSongFree(last.pre.alloc_table)
              <=> ~next_available_song(last.pre.alloc_table).some
        /\ ~next_available_song(last.pre.alloc_table).some =>
              last.res = Err(ERR_SONGS_FULL)

\* a ragged byte string given to a save where every song owns a block and
\* blocks are free
SongsFullFirstCase ==
    /\ last.op = "import_song"
    /\ Len(last.bytes) % BLOCK_SIZE # 0
    /\ \A song \in 0..(SONG_SLOTS - 1) : Owned(last.pre.alloc_table, song) # {}
    /\ FreeBlocks(last.pre.alloc_table) # {}
    /\ last.res = Err(ERR_SONGS_FULL)

\* the blocks of the song in ascending block number, one after the other
RECURSIVE ConcatOwned(_, _, _, _)
ConcatOwned(table, blocks_tbl, song, b) ==
    IF b > Len(table) THEN <<>>
    ELSE (IF table[b] = song THEN blocks_tbl[b] ELSE <<>>)
         \o ConcatOwned(table, blocks_tbl, song, b + 1)

\* C8: for every allocation table and every song index, export_song returns
\* the contents of exactly the blocks whose entry equals the song, in
\* ascending block number, BLOCK_SIZE * size_of(song) bytes in all, and
\* changes nothing in the save.
ExportInOrder ==
    last.op = "export_song" =>
        /\ last.res.kind = "Ok"
        /\ last.out = ConcatOwned(last.pre.alloc_table, last.pre.block_table,
                                  last.song, 1)
        /\ Len(last.out) = BLOCK_SIZE * size_of(last.pre.alloc_table, last.song)
        /\ Untouched

\* C9: along every sequence of reserve and import_song calls, an entry that
\* is not FREE keeps its value: only FREE entries are written.
OwnershipKept ==
    [][\A b \in 1..ALLOC_TABLE_LENGTH :
          alloc_table[b] # FREE => alloc_table'[b] = alloc_table[b]]_vars

\* a last call of a sequence that imports into a table with owned entries
OwnershipKeptCase ==
    /\ calls = MaxCalls
    /\ Imported
    /\ NumCandidates >= 1
    /\ \E b \in 1..ALLOC_TABLE_LENGTH : last.pre.alloc_table[b] # FREE
    /\ \E b \in 1..ALLOC_TABLE_LENGTH : alloc_table[b] # last.pre.alloc_table[b]

\* C10: reserve(block, song) on an entry that is not FREE fails with
\* BlockTaken and leaves the table as it was; on a FREE entry it succeeds,
\* sets that entry to song and leaves every other entry as it was.
ReserveOutcome ==
    (last.op = "reserve" /\ last.block \in 1..ALLOC_TABLE_LENGTH) =>
        IF last.pre.alloc_table[last.block] # FREE
        THEN /\ last.res = Err(ERR_BLOCK_TAKEN)
             /\ alloc_table = last.pre.alloc_table
        ELSE /\ last.res = Ok(0)
             /\ alloc_table = [last.pre.alloc_table EXCEPT ![last.block] = last.song]

\* a reserve of a block another song owns
ReserveOutcomeCase ==
    /\ last.op = "reserve"
    /\ last.block \in 1..ALLOC_TABLE_LENGTH
    /\ last.pre.alloc_table[last.block] \notin {FREE, last.song}
    /\ last.res = Err(ERR_BLOCK_TAKEN)

\* the song indices that own no block
Unowned(table) == {song \in 0..(SONG_SLOTS - 1) : Owned(table, song) = {}}

\* C11: next_available_song() is the lowest song index that owns no block,
\* for every allocation table, with songs out of order or with gaps too; it
\* is None when every song index owns a block or every entry is used.
LowestFreeSong ==
    LET r == next_available_song(alloc_table)
    IN  IF \/ Unowned(alloc_table) = {}
           \/ \A b \in 1..Len(alloc_table) : alloc_table[b] # FREE
        THEN r = None
        ELSE /\ r.some
             /\ r.v \in Unowned(alloc_table)
             /\ \A other \in Unowned(alloc_table) : r.v <= other

\* a table with a gap: a later song owns a block below a free one, the
\* first song owns none
LowestFreeSongCase ==
    /\ Len(alloc_table) = ALLOC_TABLE_LENGTH
    /\ \E low, high \in 1..ALLOC_TABLE_LENGTH :
          /\ low < high
          /\ alloc_table[low] = SONG_SLOTS - 1
          /\ alloc_table[high] = FREE
    /\ Owned(alloc_table, 0) = {}
    /\ next_available_song(alloc_table) = Some(0)

\* C12: from the empty table, reserving the block next_empty_block() returns
\* until it returns None, every reserve succeeds, BLOCK_COUNT blocks have
\* been reserved, next_empty_block() is None and blocks_used() is
\* BLOCK_COUNT.
Exhaustion ==
    (/\ last.op = "test_reserve"
     /\ \A b \in 1..ALLOC_TABLE_LENGTH : last.pre.alloc_table[b] = FREE) =>
        /\ last.res = Ok(0)
        /\ ~next_empty_block(alloc_table).some
        /\ Cardinality({b \in 1..ALLOC_TABLE_LENGTH : alloc_table[b] # FREE})
              = BLOCK_COUNT
        /\ blocks_used(alloc_table) = BLOCK_COUNT

(***************************************************************************)
(* Properties of the chain patcher, checked on PatchSpec.                  *)
(***************************************************************************)
\* the index of the first SPECIAL_BYTE a left-to-right scan stops at, the
\* tokens whose second byte is in `passed` being passed over; -1 if none
RECURSIVE FirstEscape(_, _, _)
FirstEscape(data, passed, i) ==
    IF i >= Len(data) THEN -1
    ELSE IF Get(data, i) # SPECIAL_BYTE THEN FirstEscape(data, passed, i + 1)
    ELSE IF i + 1 < Len(data) /\ Get(data, i + 1) \in passed
    THEN FirstEscape(data, passed, i + 2)
    ELSE i

Dictionary == {DEF_WAVE_BYTE, DEF_INST_BYTE}

\* what may stand in a chain pointer before it is patched
PointerBytes == 1..BLOCK_COUNT \cup {PLACEHOLDER}

\* C13: skip_to_block(target) scans left to right; at the first SPECIAL_BYTE
\* followed by a block number or the placeholder it overwrites that byte
\* with target and succeeds; the dictionary tokens are passed over; a
\* SPECIAL_BYTE followed by EOF_BYTE fails with NoSkip, and so does a block
\* with no SPECIAL_BYTE; a SPECIAL_BYTE in the last byte fails with the
\* format error; on every failure the block is as it was.
PatchOutcomes ==
    last.op = "skip_to_block" =>
        LET data == last.bytes
            i == FirstEscape(data, Dictionary, 0)
        IN  /\ i = -1 => last.res = Err(ERR_NO_SKIP)
            /\ i = Len(data) - 1 => last.res = Err(ERR_BAD_FMT)
            /\ (i >= 0 /\ i < Len(data) - 1) =>
                  /\ Get(data, i + 1) \in PointerBytes =>
                        /\ last.res = Ok(0)
                        /\ last.out = Set(data, i + 1, last.block)
                  /\ Get(data, i + 1) = EOF_BYTE => last.res = Err(ERR_NO_SKIP)
            /\ last.res.kind = "Err" => last.out = data
            /\ last.res.kind # "panic"

\* a block patched behind a dictionary token, with an end-of-data token
\* after the patched pointer
PatchOutcomesCase ==
    /\ last.op = "skip_to_block"
    /\ last.res = Ok(0)
    /\ Get(last.bytes, 0) = SPECIAL_BYTE
    /\ Get(last.bytes, 1) \in Dictionary
    /\ Get(last.bytes, 2) = SPECIAL_BYTE
    /\ Get(last.bytes, 3) = PLACEHOLDER
    /\ Get(last.out, 3) = last.block
    /\ Get(last.bytes, BLOCK_SIZE - 1) = EOF_BYTE

\* C14: for a block with a doubled SPECIAL_BYTE before its chain pointer
\* (SPECIAL_BYTE, n), skip_to_block(target) passes over the doubled one,
\* overwrites n with target and succeeds.
PatchPassesSelfEscape ==
    last.op = "skip_to_block" =>
        LET data == last.bytes
            i == FirstEscape(data, Dictionary, 0)
            j == FirstEscape(data, Dictionary \cup {SPECIAL_BYTE}, 0)
        IN  (/\ i >= 0 /\ i < Len(data) - 1
             /\ Get(data, i + 1) = SPECIAL_BYTE
             /\ j >= 0 /\ j < Len(data) - 1
             /\ Get(data, j + 1) \in PointerBytes) =>
                /\ last.res = Ok(0)
                /\ last.out = Set(data, j + 1, last.block)

(***************************************************************************)
(* Properties of the save image.                                           *)
(***************************************************************************)
\* C15: the image LsdjSave::bytes returns is SAVE_SIZE bytes long for every
\* save: the SRAM, then the metadata with the allocation table ending at
\* BLOCK_ADDRESS, then the block table with block k at
\* BLOCK_ADDRESS + (k-1) * BLOCK_SIZE.
SaveImage ==
    Len(alloc_table) = ALLOC_TABLE_LENGTH =>
        LET image == LsdjSave_bytes(sram.data, title_table, alloc_table,
                                    block_table)
        IN  /\ Slice(image, 0, SRAM_SIZE) = sram.data
            /\ Slice(image, BLOCK_ADDRESS - ALLOC_TABLE_LENGTH, BLOCK_ADDRESS)
                  = alloc_table
            /\ \A k \in 1..BLOCK_COUNT :
                  Slice(image, BLOCK_ADDRESS + (k - 1) * BLOCK_SIZE,
                        BLOCK_ADDRESS + k * BLOCK_SIZE) = block_table[k]
            /\ Len(image) = SAVE_SIZE

(***************************************************************************)
(* Properties of the compressor's tokens, checked on CodecSpec at the      *)
(* first token of every compress call: the call starts at the cursor       *)
(* last_compress.base with an empty block.                                 *)
(***************************************************************************)
\* the length of the run of equal bytes that starts at index i
RECURSIVE Run(_, _)
Run(data, i) ==
    IF i + 1 < Len(data) /\ Get(data, i + 1) = Get(data, i)
    THEN 1 + Run(data, i + 1) ELSE 1

\* a dictionary pattern starts at index i
PatternAt(data, i) ==
    /\ i + DEF_INST_SIZE <= Len(data)
    /\ Slice(data, i, i + DEF_INST_SIZE) \in {DEF_INST_VALUES, DEF_WAVE_VALUES}

Ordinary(data, i) ==
    /\ i < Len(data)
    /\ Get(data, i) \notin {RLE_BYTE, SPECIAL_BYTE}
    /\ ~PatternAt(data, i)

\* C16: at a maximal run of r bytes v, v no RLE_BYTE or SPECIAL_BYTE and no
\* dictionary pattern ahead, compress with room in the block writes r
\* literal bytes v if r <= 3, the token (RLE_BYTE, v, r) if r is 4 up to
\* REPEAT_MAX, and (RLE_BYTE, v, REPEAT_MAX) for the first REPEAT_MAX bytes
\* of a longer run; the cursor moves on by the number of bytes encoded.
RunTokens ==
    (/\ scenario.kind = "roundtrip"
     /\ last_compress.res.kind # "none"
     /\ Ordinary(sram.data, last_compress.base)) =>
        LET data == sram.data
            c == last_compress.base
            v == Get(data, c)
            r == Run(data, c)
            encoded == Min(r, REPEAT_MAX)
            token == IF r <= 3 THEN [k \in 1..r |-> v]
                     ELSE <<RLE_BYTE, v, encoded>>
            at == Len(token)
            block == last_compress.block
            next == c + encoded
        IN  /\ Slice(block, 0, at) = token
            /\ \* the cursor: what follows the token is the encoding of the
               \* bytes from c + encoded on
               IF next = SRAM_SIZE
               THEN /\ Slice(block, at, at + 2) = <<SPECIAL_BYTE, EOF_BYTE>>
                    /\ last_compress.res = Ok(0)
                    /\ sram.position = SRAM_SIZE
               ELSE IF Ordinary(data, next) /\ at + HEADROOM > BLOCK_SIZE
               THEN /\ Get(block, at) = SPECIAL_BYTE
                    /\ last_compress.res.kind = "Ok"
                    /\ last_compress.res.val = Get(block, at + 1)
                    /\ sram.position = next
               ELSE IF Ordinary(data, next)
               THEN LET rest == Min(Run(data, next), REPEAT_MAX)
                    IN  IF rest <= 3 THEN Get(block, at) = Get(data, next)
                        ELSE Slice(block, at, at + 3)
                                = <<RLE_BYTE, Get(data, next), rest>>
               ELSE Get(block, at) \in {RLE_BYTE, SPECIAL_BYTE}

\* a run longer than REPEAT_MAX, cut into a full token and a shorter one
RunTokensCase ==
    /\ scenario.kind = "roundtrip"
    /\ last_compress.res.kind = "Ok"
    /\ Ordinary(sram.data, last_compress.base)
    /\ Run(sram.data, last_compress.base) > REPEAT_MAX
    /\ Slice(last_compress.block, 0, 3)
          = <<RLE_BYTE, Get(sram.data, last_compress.base), REPEAT_MAX>>
    /\ sram.position = last_compress.base + REPEAT_MAX

(***************************************************************************)
(* Properties of the decompressor, checked on CodecSpec where              *)
(* decompress_to is about to decompress blocks[current_index] at the       *)
(* cursor of dest.                                                         *)
(***************************************************************************)
\* the token stream of a block read from index i: whether a terminal token
\* is reached inside the block, the expansion of the tokens before it, and
\* the byte after the terminal SPECIAL_BYTE
RECURSIVE Expansion(_, _, _)
Expansion(data, i, out) ==
    LET Open == [terminal |-> FALSE, out |-> out, n |-> 0]
    IN  IF i >= Len(data) THEN Open
        ELSE IF Get(data, i) = RLE_BYTE
        THEN IF i + 1 >= Len(data) THEN Open
             ELSE IF Get(data, i + 1) = RLE_BYTE
             THEN Expansion(data, i + 2, Append(out, RLE_BYTE))
             ELSE IF i + 2 >= Len(data) THEN Open
             ELSE Expansion(data, i + 3,
                      out \o [k \in 1..Get(data, i + 2) |-> Get(data, i + 1)])
        ELSE IF Get(data, i) = SPECIAL_BYTE
        THEN IF i + 1 >= Len(data) THEN Open
             ELSE IF Get(data, i + 1) = SPECIAL_BYTE
             THEN Expansion(data, i + 2, Append(out, SPECIAL_BYTE))
             ELSE IF Get(data, i + 1) = DEF_INST_BYTE
             THEN Expansion(data, i + 2, out \o DEF_INST_VALUES)
             ELSE IF Get(data, i + 1) = DEF_WAVE_BYTE
             THEN Expansion(data, i + 2, out \o DEF_WAVE_VALUES)
             ELSE [terminal |-> TRUE, out |-> out, n |-> Get(data, i + 1)]
        ELSE Expansion(data, i + 1, Append(out, Get(data, i)))

\* decompress wrote `out` at the cursor of `before` and moved the cursor
\* behind it
Wrote(before, after, out) ==
    /\ after.position = before.position + Len(out)
    /\ after.position <= SRAM_SIZE
    /\ after.data = [i \in 1..SRAM_SIZE |->
                        IF i > before.position /\ i <= before.position + Len(out)
                        THEN out[i - before.position] ELSE before.data[i]]

Decoding == pc = "decompress_to" /\ current_index < Len(blocks)

\* C17: for a block whose token stream reaches a terminal token inside the
\* block, decompress writes at the entry cursor the expansion of the tokens
\* before the terminal one, moves the cursor by the number of bytes written,
\* and returns 0 for (SPECIAL_BYTE, EOF_BYTE) and n for any other
\* (SPECIAL_BYTE, n).
DecodeTokens ==
    Decoding =>
        LET block == Get(blocks, current_index)
            e == Expansion(block, 0, <<>>)
            r == decompress(block, dest)
        IN  e.terminal =>
               /\ r.res = Ok(IF e.n = EOF_BYTE THEN 0 ELSE e.n)
               /\ Wrote(dest, r.sram, e.out)

\* the walk of a block list from list index idx: each block decompressed at
\* the cursor the one before left, block number n leading to list index
\* n - 1, until a block returns 0 or fails or the index leaves the list
RECURSIVE Walk(_, _, _, _, _)
Walk(list, idx, into, count, fuel) ==
    IF fuel = 0 THEN [ended |-> FALSE, res |-> NoResult, sram |-> into]
    ELSE IF ~(idx >= 0 /\ idx < Len(list))
    THEN [ended |-> TRUE, res |-> Ok(count), sram |-> into]
    ELSE LET r == decompress(Get(list, idx), into)
         IN  IF r.res.kind = "panic"
             THEN [ended |-> FALSE, res |-> r.res, sram |-> r.sram]
             ELSE IF r.res.kind = "Err"
             THEN [ended |-> TRUE, res |-> r.res, sram |-> r.sram]
             ELSE IF r.res.val = 0
             THEN [ended |-> TRUE, res |-> Ok(count + 1), sram |-> r.sram]
             ELSE Walk(list, r.res.val - 1, r.sram, count + 1, fuel - 1)

\* C18: decompress_to(dest, start) decompresses list element start, then
\* after each block that returns n # 0 element n - 1, each at the cursor the
\* one before left; it stops with success when a block returns 0 or the
\* next index is outside the list and returns the number of blocks
\* decompressed; a block's format error is returned and no further block is
\* decompressed.
ChainWalk ==
    (scenario.kind = "decode" /\ pc = "done") =>
        LET w == Walk(blocks, scenario.start,
                      [position |-> scenario.cursor, data |-> EmptySramData],
                      0, 2 * U8_WRAP)
        IN  /\ w.ended
            /\ decompress_result = w.res
            /\ dest = w.sram

\* a walk that starts behind the first element, jumps back and ends there
ChainWalkCase ==
    /\ scenario.kind = "decode"
    /\ pc = "done"
    /\ scenario.start > 0
    /\ decompress_result = Ok(2)
    /\ dest.position > scenario.cursor

(***************************************************************************)
(* The compressor's closing token, checked on CodecSpec after every        *)
(* compress call.                                                          *)
(***************************************************************************)
\* the token for the source bytes at index at: how many source bytes it
\* encodes and the bytes it is written as
Token(data, at) ==
    LET byte == Get(data, at)
        r == Min(Run(data, at), REPEAT_MAX)
    IN  IF byte \in {RLE_BYTE, SPECIAL_BYTE}
        THEN [src |-> 1, out |-> <<byte, byte>>]
        ELSE IF at + DEF_INST_SIZE <= Len(data)
                /\ Slice(data, at, at + DEF_INST_SIZE) = DEF_INST_VALUES
        THEN [src |-> DEF_INST_SIZE, out |-> <<SPECIAL_BYTE, DEF_INST_BYTE>>]
        ELSE IF at + DEF_WAVE_SIZE <= Len(data)
                /\ Slice(data, at, at + DEF_WAVE_SIZE) = DEF_WAVE_VALUES
        THEN [src |-> DEF_WAVE_SIZE, out |-> <<SPECIAL_BYTE, DEF_WAVE_BYTE>>]
        ELSE IF r <= 3
        THEN [src |-> r, out |-> [k \in 1..r |-> byte]]
        ELSE [src |-> r, out |-> <<RLE_BYTE, byte, r>>]

\* the tokens of a block that asks for HEADROOM bytes before every token:
\* the bytes before the closing token, the source index it stops at, and
\* whether it stops at the end of the source
RECURSIVE Encoding(_, _, _)
Encoding(data, at, out) ==
    IF at >= Len(data) THEN [eof |-> TRUE, at |-> at, out |-> out]
    ELSE IF Len(out) + HEADROOM > BLOCK_SIZE
    THEN [eof |-> FALSE, at |-> at, out |-> out]
    ELSE LET t == Token(data, at)
         IN  Encoding(data, at + t.src, out \o t.out)

\* C19: compress asks for HEADROOM bytes of the block before every token,
\* the doubled RLE_BYTE and SPECIAL_BYTE included; without them it writes
\* (SPECIAL_BYTE, block_num + 1) as the last bytes of the block, leaves the
\* cursor at the first byte not encoded and returns block_num + 1; at the
\* end of the source it writes (SPECIAL_BYTE, EOF_BYTE) and returns 0.  It
\* returns 0 exactly when the block ends with (SPECIAL_BYTE, EOF_BYTE).
HeadroomFirst ==
    (scenario.kind = "roundtrip" /\ last_compress.res.kind # "none") =>
        LET e == Encoding(sram.data, last_compress.base, <<>>)
            n == Len(e.out)
            val == IF e.eof THEN 0 ELSE last_compress.num + 1
            block == last_compress.block
        IN  /\ n + 2 <= BLOCK_SIZE
            /\ Slice(block, 0, n) = e.out
            /\ Slice(block, n, n + 2)
                  = <<SPECIAL_BYTE, IF e.eof THEN EOF_BYTE ELSE val>>
            /\ last_compress.res = Ok(val)
            /\ sram.position = e.at
            /\ (last_compress.res.val = 0)
                  <=> (Slice(block, n, n + 2) = <<SPECIAL_BYTE, EOF_BYTE>>)

(***************************************************************************)
(* An import that fails while its candidates are patched, checked on Spec. *)
(***************************************************************************)
\* the element of S with i elements of S below it
Nth(S, i) == CHOOSE b \in S : Cardinality({c \in S : c < b}) = i

\* candidate i pointed at the block reserved for candidate i + 1
Patched(i) ==
    skip_to_block(Candidate(i),
                  Nth(FreeBlocks(last.pre.alloc_table), i + 1))

\* the candidates that cannot be patched
Unpatched ==
    {i \in 0..(NumCandidates - 2) : Patched(i).res.kind # "Ok"}

\* import_song returned the error of skip_to_block
FailedPatching ==
    /\ last.op = "import_song"
    /\ last.res \in {Err(ERR_NO_SKIP), Err(ERR_BAD_FMT)}
    /\ Len(last.bytes) % BLOCK_SIZE = 0

\* C20: when import_song fails because patching a candidate block fails,
\* the blocks it reserved stay owned by the new song index, so that the
\* allocation table is not the one the call found; the candidates before
\* the failing one are in the block table; the title is not assigned.
NoRollback ==
    FailedPatching =>
        LET pre == last.pre
            s == next_available_song(pre.alloc_table)
            free == FreeBlocks(pre.alloc_table)
            taken == Lowest(free, NumCandidates)
            failing == CHOOSE i \in Unpatched : \A j \in Unpatched : i <= j
        IN  /\ s.some
            /\ Unpatched # {}
            /\ last.res = Patched(failing).res
            /\ Cardinality(taken) = NumCandidates
            /\ \A b \in 1..ALLOC_TABLE_LENGTH :
                  alloc_table[b] = IF b \in taken THEN s.v
                                   ELSE pre.alloc_table[b]
            /\ alloc_table # pre.alloc_table
            /\ \A i \in 0..(failing - 1) :
                  block_table[Nth(free, i)] = Patched(i).data
            /\ \A b \in 1..BLOCK_COUNT :
                  (\A i \in 0..(failing - 1) : b # Nth(free, i))
                      => block_table[b] = pre.block_table[b]
            /\ title_table = pre.title_table

\* the second of three candidates cannot be patched: the first is stored,
\* three blocks are owned by the song that was not imported
NoRollbackCase ==
    /\ FailedPatching
    /\ NumCandidates = 3
    /\ Unpatched = {1}
    /\ block_table # last.pre.block_table
    /\ Cardinality(Owned(alloc_table, next_available_song(last.pre.alloc_table).v)) = 3

(***************************************************************************)
(* The patcher against the decoder, checked on PatchSpec.                  *)
(***************************************************************************)
\* the block decodes up to a chain pointer
EndsInPointer(data) ==
    LET r == decompress(data, EmptySram)
    IN  r.res.kind = "Ok" /\ r.res.val # 0

\* C21: for a block that decompress parses up to a chain pointer
\* (SPECIAL_BYTE, n) at offset k, a successful skip_to_block(t) changes the
\* byte at offset k + 1 and no other: the patched block decompresses to the
\* same bytes and returns t.  A SPECIAL_BYTE that starts no token, such as
\* the value or the count of an RLE token, is not taken for the pointer.
PatchKeepsData ==
    (/\ last.op = "skip_to_block"
     /\ last.res = Ok(0)
     /\ EndsInPointer(last.bytes)) =>
        LET before == decompress(last.bytes, EmptySram)
            after == decompress(last.out, EmptySram)
        IN  /\ \E k \in 0..(BLOCK_SIZE - 2) :
                  /\ Get(last.bytes, k) = SPECIAL_BYTE
                  /\ Get(last.bytes, k + 1) = before.res.val
                  /\ last.out = Set(last.bytes, k + 1, last.block)
            /\ after.res = Ok(last.block)
            /\ after.sram = before.sram

(***************************************************************************)
(* The allocation table has one entry more than the block table has        *)
(* blocks.  Checked on Spec, from every allocation table.                  *)
(***************************************************************************)
\* the entries of the allocation table the call changed
Reserved == {b \in 1..ALLOC_TABLE_LENGTH : alloc_table[b] # last.pre.alloc_table[b]}

\* the call went past the check of the free blocks
PastFreeCheck ==
    /\ last.op = "import_song"
    /\ next_available_song(last.pre.alloc_table).some
    /\ Len(last.bytes) % BLOCK_SIZE = 0
    /\ last.res # Err(ERR_NO_BLOCKS)

\* C22: for every allocation table of ALLOC_TABLE_LENGTH entries and every
\* input, import_song reserves and writes no block number above
\* BLOCK_COUNT, its count of free blocks is never below zero, and past the
\* check of the free blocks it reserves exactly N blocks.
ImportInsideBlockTable ==
    last.op = "import_song" =>
        /\ last.res.kind # "panic"
        /\ \A b \in Reserved : b <= BLOCK_COUNT
        /\ (/\ next_available_song(last.pre.alloc_table).some
            /\ Len(last.bytes) % BLOCK_SIZE = 0)
               => BLOCK_COUNT - blocks_used(last.pre.alloc_table) >= 0
        /\ PastFreeCheck =>
              /\ Cardinality(Reserved) = NumCandidates
              /\ \A b \in Reserved :
                    /\ last.pre.alloc_table[b] = FREE
                    /\ alloc_table[b] = next_available_song(last.pre.alloc_table).v
        /\ \A b \in 1..BLOCK_COUNT :
              block_table[b] # last.pre.block_table[b] => b \in Reserved

\* an import that takes every block the check lets it take, with the last
\* entry of the allocation table free before and after
ImportInsideBlockTableCase ==
    /\ PastFreeCheck
    /\ NumCandidates >= 2
    /\ NumCandidates = BLOCK_COUNT - blocks_used(last.pre.alloc_table)
    /\ last.pre.alloc_table[ALLOC_TABLE_LENGTH] = FREE
    /\ alloc_table[ALLOC_TABLE_LENGTH] = FREE
    /\ Cardinality(Reserved) = NumCandidates

(***************************************************************************)
(* The end of the chain walk, checked on WalkSpec.                         *)
(***************************************************************************)
\* C23: decompress_to ends for every block list and every start index:
\* after finitely many blocks the walk has reached a block that returns 0,
\* an index outside the list or an error, also when the chain pointers
\* come back to a block, as in a block that points at itself.  The formula
\* counts an abort as an end too.
WalkEnds == <>(pc \in {"done", "panic"})

(***************************************************************************)
(* Imports in a row, checked on SeqSpec.  The save starts with no title,   *)
(* and every title given to import_song has a nonzero byte: song k has a   *)
(* title exactly when an earlier import returned k.                        *)
(***************************************************************************)
\* C24: in a sequence of import_song calls on one save the successful calls
\* return pairwise distinct song indices, an import of no bytes included:
\* no import returns an index an earlier import returned and puts its
\* title over the earlier one.
ImportsDistinct ==
    Imported => last.pre.title_table[last.res.val + 1] = NoTitle

(***************************************************************************)
(* The metadata loaded and written back, checked on LoadSpec.              *)
(***************************************************************************)
\* where the init check is in the metadata region
InitCheckAt ==
    TITLE_LENGTH * SONG_SLOTS + VERSION_TABLE_LENGTH + EMPTY_BYTES_LENGTH

\* C25: a save loaded and serialized with no import in between gives back
\* every byte of the metadata region of the file (titles, versions,
\* reserved bytes, init check, working song, allocation table), and
\* check_sram_init() after loading is true exactly when the init check of
\* the file is SRAM_INIT_CHK_BYTES.
MetadataRoundTrip ==
    /\ last.op = "bytes" => last.out = last.bytes
    /\ last.op \in {"from", "bytes"} =>
          (check_sram_init(Loaded)
              <=> Slice(last.bytes, InitCheckAt, InitCheckAt + SRAM_INIT_CHK_LENGTH)
                     = SRAM_INIT_CHK_BYTES)

====
